---- MODULE Spec2Model ----
(***************************************************************************)
(* X-EPAS pull-request evaluation pipeline (backend/services and           *)
(* backend/routes/github.py): the diff position mapper, the PR link        *)
(* parser and the evaluate-and-comment pipeline.                           *)
(***************************************************************************)
EXTENDS Integers, Sequences, FiniteSets, TLC

\* ------------------------------------------------------------------------
\* Bounds of the model
\* ------------------------------------------------------------------------
MaxLines == 4
MaxTarget == 9
FarStart == 8

\* Python's None for an int | None value (positions are never negative).
None == -1

\* The tolerance of the closest-match fallback.
Tolerance == 5

\* ------------------------------------------------------------------------
\* Patch lines.  A line of patch.split("\n") is modelled by what the code
\* inspects of it: its leading characters (c) and, for a hunk header, the
\* number captured by re.search(r"\+(\d+)", line) (n; None when the regex
\* does not match).
\*   "@@"  hunk header        "+"  addition        " "  context
\*   "-"   deletion           ""   empty line
\*   "\\"  any other non-empty line ("\ No newline at end of file")
\* ------------------------------------------------------------------------
HunkStarts == {1, FarStart}

HeaderLines == [c : {"@@"}, n : HunkStarts]

BodyLines == [c : {"+", " ", "-", "", "\\"}, n : {None}]

PatchLines == HeaderLines \cup BodyLines

SeqsUpTo(S, k) == UNION {[1..m -> S] : m \in 1..k}

\* In a unified diff a "\ No newline at end of file" marker directly
\* follows the addition, context line or deletion it is about.
MarkersFollowContent(p) ==
    \A i \in 1..Len(p) :
        p[i].c = "\\" => (i > 1 /\ p[i - 1].c \in {"+", " ", "-"})

\* A hunk header is followed by the lines of its hunk: at least one
\* addition, context line or deletion.
HunksNotEmpty(p) ==
    \A i \in 1..Len(p) :
        p[i].c = "@@" => (i < Len(p) /\ p[i + 1].c \in {"+", " ", "-"})

\* patch.split("\n") always yields at least one line; the empty patch
\* string splits into one empty line.
Patches ==
    {p \in SeqsUpTo(PatchLines, MaxLines) :
        MarkersFollowContent(p) /\ HunksNotEmpty(p)}

EmptyPatch == <<[c |-> "", n |-> None]>>

\* Patches made of headers, additions, context lines, deletions and empty
\* lines only.
PlainPatches == {p \in Patches : \A i \in 1..Len(p) : p[i].c # "\\"}

\* Patches of one hunk header followed by additions and context lines only;
\* new-start 10 is the header "@@ -10,4 +10,7 @@".
SingleHunkPatches ==
    {<<h>> \o b : h \in [c : {"@@"}, n : HunkStarts \cup {10}],
                  b \in SeqsUpTo([c : {"+", " "}, n : {None}], MaxLines)}

SingleHunkTargets == 1..(MaxTarget + MaxLines)

TargetLines == 1..MaxTarget

startswith(line, prefix) == line.c = prefix

\* len(line) == 0
IsEmptyLine(line) == line.c = ""

Abs(x) == IF x < 0 THEN -x ELSE x

\* Python truthiness of an int | None value.
Truthy(v) == v # None /\ v # 0

\* ------------------------------------------------------------------------
\* PR links.  A link is the sequence of its characters, grouped: "/" is the
\* separator, every other element is a "/"-free word.
\* ------------------------------------------------------------------------
MaxSegs == 5
MaxTrailing == 2

Words == {"acme", "widgets", "pull", "42", "abc"}

NumericWords == {"42"}

LinkPrefix == <<"https:", "/", "/", "github.com">>

RECURSIVE Slashes(_)
Slashes(k) == IF k = 0 THEN <<>> ELSE <<"/">> \o Slashes(k - 1)

\* "/" + seg for every segment; the empty string "" adds no character
RECURSIVE PathOf(_)
PathOf(segs) ==
    IF segs = <<>> THEN <<>>
    ELSE <<"/">> \o (IF Head(segs) = "" THEN <<>> ELSE <<Head(segs)>>)
                \o PathOf(Tail(segs))

LinkOf(segs, trailing) == LinkPrefix \o PathOf(segs) \o Slashes(trailing)

AllLinks ==
    {LinkOf(segs, k) : segs \in UNION {[1..m -> Words \cup {""}] : m \in 0..MaxSegs},
                       k \in 0..MaxTrailing}

\* the links submitted to the pipeline
PipelineLinks ==
    { LinkOf(<<"acme", "widgets", "pull", "42">>, 0),
      LinkOf(<<"acme", "widgets", "pull", "42">>, 1),
      LinkOf(<<"acme", "widgets", "pull", "abc">>, 0),
      LinkOf(<<"acme", "widgets", "pull", "42", "abc">>, 0),
      LinkOf(<<"acme", "widgets", "abc", "42">>, 0),
      LinkOf(<<"acme", "widgets">>, 0) }

\* str.rstrip("/")
RECURSIVE rstrip(_)
rstrip(s) ==
    IF s # <<>> /\ s[Len(s)] = "/" THEN rstrip(SubSeq(s, 1, Len(s) - 1)) ELSE s

\* str.split("/"): the parts between separators, each a sequence of words
\* (<<>> is the empty string)
RECURSIVE split(_)
split(s) ==
    IF s = <<>> THEN << <<>> >>
    ELSE LET rest == split(SubSeq(s, 1, Len(s) - 1)) IN
         IF s[Len(s)] = "/"
            THEN Append(rest, <<>>)
            ELSE [rest EXCEPT ![Len(rest)] = Append(@, s[Len(s)])]

NoRef == <<>>

\* parse_pr_link taking owner, repo and number one part too early
parse_pr_link_ShiftedParts(github_link) ==
    LET parts == split(rstrip(github_link)) IN
    IF Len(parts) < 7 \/ parts[6] # <<"pull">>
       THEN NoRef
       ELSE <<parts[3], parts[4], parts[6]>>

\* GitHubService.parse_pr_link: <<owner, repo, pr_number>>, or NoRef when it
\* raises HTTPException(400).  Python's parts[k] is parts[k + 1] here.
parse_pr_link(github_link) ==
    LET parts == split(rstrip(github_link)) IN
    IF Len(parts) < 7 \/ parts[6] # <<"pull">>
       THEN NoRef
       ELSE <<parts[4], parts[5], parts[7]>>

\* ------------------------------------------------------------------------
\* The code host and the AI model, as seen by the pipeline
\* ------------------------------------------------------------------------
MaxFiles == 2
MaxComments == 2

HostStatuses == {200, 201, 204, 401, 404, 422, 500}

\* response.text of an answer that is not 2xx
HostErrorTexts == {"API rate limit exceeded"}

\* a file entry of the "list PR files" response; patch may be absent
NoPatch == "<absent>"

HostFileEntries ==
    {[filename |-> "src/a.py", status |-> "modified", patch |-> NoPatch],
     [filename |-> "src/a.py", status |-> "modified", patch |-> "@@ -10,4 +10,7 @@"],
     [filename |-> "src/b.py", status |-> "added", patch |-> "@@ -0,0 +1,3 @@"]}

HostFileLists == UNION {[1..m -> HostFileEntries] : m \in 0..MaxFiles}

\* FileDiff keeping a missing patch missing
FileDiff_KeepsAbsent(file) ==
    [filename |-> file.filename, status |-> file.status, patch |-> file.patch]

\* FileDiff(filename=file["filename"], status=file["status"],
\*          patch=file.get("patch", ""))
FileDiff(file) ==
    [filename |-> file.filename, status |-> file.status,
     patch |-> IF file.patch = NoPatch THEN "" ELSE file.patch]

FileDiffs(pr_files) == [i \in 1..Len(pr_files) |-> FileDiff(pr_files[i])]

ReviewComments ==
    {[path |-> "src/a.py", line |-> 3, body |-> "validate count"],
     [path |-> "src/a.py", line |-> 12, body |-> "validate count"],
     [path |-> "src/b.py", line |-> 12, body |-> "name the constant"]}

CommentLists == UNION {[1..m -> ReviewComments] : m \in 0..MaxComments}

\* the structured data of a model response: the three scores (None when
\* the field is missing) and the comments
ScoreTriples == {<<7, 8, 6>>, <<0, 10, 5>>, <<11, 8, 6>>, <<7, None, 6>>}

ResponseData ==
    [summary : {"summary"}, scores : ScoreTriples, review_comments : CommentLists]

\* a string field missing from a comment of the response
Absent == "<absent>"

\* a comment of the response that lacks its path, its line or its body
MalformedComments ==
    {[path |-> Absent, line |-> 3, body |-> "validate count"],
     [path |-> "src/a.py", line |-> None, body |-> "validate count"],
     [path |-> "src/a.py", line |-> 12, body |-> Absent]}

\* the detail of an HTTPException: its fixed message and the text
\* interpolated into it (<<>>: none)
Detail(msg, text) == [msg |-> msg, text |-> text]

\* ValidScore without ge=0
ValidScore_NoLowerBound(v) == v <= 10

\* creativity_score: int = Field(..., ge=0, le=10), and the two like it
ValidScore(v) == v # None /\ v >= 0 /\ v <= 10

\* ReviewComment: path: str, line: int, body: str, all required
ValidComment(c) == c.path # Absent /\ c.line # None /\ c.body # Absent

\* PRReview(**response_data) passes validation
ValidReview(data) ==
    /\ \A i \in 1..3 : ValidScore(data.scores[i])
    /\ \A i \in 1..Len(data.review_comments) : ValidComment(data.review_comments[i])

\* The text of a model response is a sequence of pieces: the two braces,
\* "fields" for the members of the review object, "prose" for anything else.
MaxTextLen == 4

TextPieces == {"{", "}", "fields", "prose"}

ResponseTexts == SeqsUpTo(TextPieces, MaxTextLen)

\* json.loads(text) returns an object: the one with the review's members,
\* or the empty one
json_loads(text) == text \in {<<"{", "fields", "}">>, <<"{", "}">>}

NoMatch == <<>>

\* re.search(r'\{.*\}', response_text, re.DOTALL).group(): from the first
\* "{" to the last "}" after it; NoMatch when there is none
re_search(text) ==
    LET opens == {i \in 1..Len(text) : text[i] = "{"}
        first == CHOOSE i \in opens : \A k \in opens : i <= k
        closes == {j \in 1..Len(text) : text[j] = "}" /\ j > first}
        last == CHOOSE j \in closes : \A k \in closes : j >= k
    IN IF opens = {} THEN NoMatch
       ELSE IF closes = {} THEN NoMatch
       ELSE SubSeq(text, first, last)

\* the text yields the review object, directly or through the brace span
Decodes(text) == json_loads(text) \/ json_loads(re_search(text))

\* the object "{}" decodes to: every member missing
EmptyObject == [summary |-> Absent, scores |-> <<None, None, None>>,
                review_comments |-> <<>>]

\* the text (or its brace span) is "{}"
DecodesEmpty(text) == <<"{", "}">> \in {text, re_search(text)}

\* what messages.create does: it raises ("api_error"), or it returns a text
\* which, when it decodes, decodes to data
ApiError == [kind |-> "api_error", text |-> <<>>, data |-> EmptyObject]

TextResponses(texts, datas) ==
    [kind : {"text"}, text : {t \in texts : Decodes(t) /\ ~DecodesEmpty(t)},
     data : datas]
        \cup [kind : {"text"}, text : {t \in texts : ~Decodes(t) \/ DecodesEmpty(t)},
              data : {EmptyObject}]

\* the model responses of the pipeline
AIResponses ==
    {ApiError}
        \cup TextResponses({<<"{", "fields", "}">>, <<"prose", "{", "fields", "}">>,
                            <<"prose">>, <<"prose", "{", "prose", "}">>},
                           ResponseData)

NoReview == [summary |-> "", scores |-> <<None, None, None>>,
             review_comments |-> <<>>]

Failed(status, detail) ==
    [ok |-> FALSE, status |-> status, detail |-> detail, review |-> NoReview]

\* The part of ClaudeService.evaluate_pr from the model call on: the parsed
\* and validated PRReview, or the HTTPException raised.
ParseResponse(ai) ==
    IF ai.kind = "api_error"
       THEN Failed(500, Detail("Claude API error", <<"client error">>))
    ELSE IF ~json_loads(ai.text) /\ re_search(ai.text) = NoMatch
       THEN Failed(500, Detail("Failed to parse Claude response as JSON", ai.text))
    ELSE IF ~json_loads(ai.text) /\ ~json_loads(re_search(ai.text))
       THEN Failed(500, Detail("Claude API error", <<"decoder message">>))
    ELSE IF ~ValidReview(ai.data)
       THEN Failed(500, Detail("Claude API error", <<"validation errors">>))
    ELSE [ok |-> TRUE, status |-> 200, detail |-> Detail("", <<>>),
          review |-> ai.data]

\* GithubComments sending the diff position computed for the comment
GithubComments_ByPosition(comments) ==
    [i \in 1..Len(comments) |->
        [path |-> comments[i].path, position |-> comments[i].line,
         body |-> comments[i].body]]

\* the comments payload of the review request
GithubComments(comments) ==
    [i \in 1..Len(comments) |->
        [path |-> comments[i].path, line |-> comments[i].line,
         side |-> "RIGHT", body |-> comments[i].body]]

\* GeneralComment keeping the first comment only
GeneralComment_FirstOnly(comments) ==
    [i \in 1..1 |-> <<comments[i].path, comments[i].line, comments[i].body>>]

\* the body of the general comment: after the title, one
\* "**path:Lline**\nbody" paragraph per comment
GeneralComment(comments) ==
    [i \in 1..Len(comments) |->
        <<comments[i].path, comments[i].line, comments[i].body>>]

NoUrl == "<none>"

\* one external call, as recorded in a run's log
Call(op, ref, payload) == [op |-> op, ref |-> ref, payload |-> payload]

\* one answer of the host, as recorded in a run's log
Reply(op, status, body) == [op |-> op, status |-> status, body |-> body]

\* ClaudeService._build_evaluation_prompt: one block per file (name, status
\* and the patch or "No patch available") inside the fixed instructions
_build_evaluation_prompt(files) ==
    [files_text |->
        [i \in 1..Len(files) |->
            [File |-> files[i].filename, Status |-> files[i].status,
             Changes |-> IF files[i].patch # "" THEN files[i].patch
                         ELSE "No patch available"]],
     instructions |-> "rubric, line rules, JSON shape"]

VARIABLES
    \* evaluate_and_comment_pr, one entry per run
    pc,                  \* where the run's coroutine is suspended
    github_link,         \* request.github_link
    pr_files,            \* list[FileDiff] of the fetched snapshot
    pr_review,           \* PRReview returned by evaluate_pr
    calls,               \* the calls the run has made (host, store, AI model,
                         \* position mapper), in order
    replies,             \* the host's answers the run has received, in order
    outcome,             \* what the caller receives
    \* the github_links collection
    snapshots,
    \* _calculate_diff_position
    mapPc,               \* "idle", "loop", "done"
    patch,               \* lines of the patch argument
    target_line,
    lineIdx,             \* index of the next line of the for loop
    position,
    current_new_line,
    in_hunk,
    last_valid_position,
    closest_line,
    mapResult,           \* the returned value
    matchIdx,            \* index of the line whose position is returned (0: none)
    closestIdx,          \* index of the line last_valid_position was taken from
    \* a call of parse_pr_link on its own
    \* one call of the evaluation after the prompt is built
    evalPc,              \* "idle", "done"
    evalResponse,        \* what messages.create did
    evalResult,          \* the PRReview returned or the HTTPException raised
    \* the overall score of one evaluated submission
    scorePc,             \* "idle", "done"
    scoreReview,         \* the three scores of the PRReview
    overall_score,       \* in tenths: 700 is 70.0
    parsePc,             \* "idle", "done"
    parseLink,           \* the github_link argument
    parseResult,         \* the returned triple, or NoRef when it raised
    \* the tasks collection and the submit requests in flight
    task,                \* the stored task document, or NoTask
    subPc,               \* per connection: "idle", or "evaluating" while its
                         \* request waits for the pipeline
    subEmployee,         \* current_employee["user_id"] of the request
    subLink,             \* submission_data.github_link of the request
    subOps,              \* the calls the pipeline made for the last request
    subResult            \* what the caller of the last request received

mapVars == <<mapPc, patch, target_line, lineIdx, position, current_new_line,
             in_hunk, last_valid_position, closest_line, mapResult, matchIdx,
             closestIdx>>

pipeVars == <<pc, github_link, pr_files, pr_review, calls, replies, outcome,
              snapshots>>

parseVars == <<parsePc, parseLink, parseResult>>

evalVars == <<evalPc, evalResponse, evalResult>>

scoreVars == <<scorePc, scoreReview, overall_score>>

fnVars == <<parseVars, evalVars, scoreVars>>

taskVars == <<task, subPc, subEmployee, subLink, subOps, subResult>>

vars == <<mapVars, pipeVars, fnVars, taskVars>>

\* what the mapper, the pipeline and the single function calls leave alone
notMapVars == <<pipeVars, fnVars, taskVars>>

notPipeVars == <<mapVars, fnVars, taskVars>>

notFnVars == <<mapVars, pipeVars, taskVars>>

notTaskVars == <<mapVars, pipeVars, fnVars>>

InitMapper ==
    /\ mapPc = "idle"
    /\ patch = EmptyPatch
    /\ target_line = 1
    /\ lineIdx = 1
    /\ position = 0
    /\ current_new_line = 0
    /\ in_hunk = FALSE
    /\ last_valid_position = None
    /\ closest_line = 0
    /\ mapResult = None
    /\ matchIdx = 0
    /\ closestIdx = 0

Pending == [kind |-> "pending", status |-> 0, detail |-> Detail("", <<>>),
            review |-> NoReview, comments_posted |-> FALSE,
            review_url |-> NoUrl, total_comments |-> 0]

\* the handler raised HTTPException(status_code, detail)
Raised(status_code, detail) ==
    [kind |-> "error", status |-> status_code, detail |-> detail,
     review |-> NoReview, comments_posted |-> FALSE, review_url |-> NoUrl,
     total_comments |-> 0]

\* the dict returned by evaluate_and_comment_pr
Returned(review, comments_posted, review_url) ==
    [kind |-> "ok", status |-> 200, detail |-> Detail("", <<>>), review |-> review,
     comments_posted |-> comments_posted, review_url |-> review_url,
     total_comments |-> Len(review.review_comments)]

InitPipeline(runs) ==
    /\ pc = [r \in runs |-> "idle"]
    /\ github_link = [r \in runs |-> <<>>]
    /\ pr_files = [r \in runs |-> <<>>]
    /\ pr_review = [r \in runs |-> NoReview]
    /\ calls = [r \in runs |-> <<>>]
    /\ replies = [r \in runs |-> <<>>]
    /\ outcome = [r \in runs |-> Pending]
    /\ snapshots = <<>>

InitParse ==
    /\ parsePc = "idle"
    /\ parseLink = <<>>
    /\ parseResult = NoRef

InitEval ==
    /\ evalPc = "idle"
    /\ evalResponse = ApiError
    /\ evalResult = Failed(0, Detail("", <<>>))

InitScore ==
    /\ scorePc = "idle"
    /\ scoreReview = <<0, 0, 0>>
    /\ overall_score = 0

InitFn == InitParse /\ InitEval /\ InitScore

\* connections on which submit requests arrive, each one request at a time
NumSubmits == 2

\* Optional fields of a task document that are null
Unassigned == "<unassigned>"

NoLink == <<>>

NoDate == 0

\* find_one returning None: the collection holds no such task
NoTask ==
    [status |-> "<no task>", assigned_to |-> Unassigned, github_link |-> NoLink,
     submission_date |-> NoDate, score |-> None, creativity_score |-> None,
     efficiency_score |-> None, edge_case_handling_score |-> None,
     feedback |-> Absent, review_comments |-> <<>>]

\* what a submit request's caller receives: nothing yet, the HTTPException
\* raised, or the dict returned
SubmitResponse(kind, status_code, detail, message) ==
    [kind |-> kind, status |-> status_code, detail |-> detail, message |-> message]

SubmitPending == SubmitResponse("pending", 0, Detail("", <<>>), "")

InitTask ==
    /\ task = NoTask
    /\ subPc = [s \in 1..NumSubmits |-> "idle"]
    /\ subEmployee = [s \in 1..NumSubmits |-> Unassigned]
    /\ subLink = [s \in 1..NumSubmits |-> NoLink]
    /\ subOps = [s \in 1..NumSubmits |-> <<>>]
    /\ subResult = [s \in 1..NumSubmits |-> SubmitPending]

Init == InitMapper /\ InitPipeline({1}) /\ InitFn /\ InitTask

\* ------------------------------------------------------------------------
\* GitHubService._calculate_diff_position
\* ------------------------------------------------------------------------

\* Entry: "if not patch: return None", else the locals are initialised.
MapEnter(p, t) ==
    /\ patch' = p
    /\ target_line' = t
    /\ IF p = EmptyPatch
          THEN mapPc' = "done"
          ELSE mapPc' = "loop"
    /\ lineIdx' = 1
    /\ position' = 0
    /\ current_new_line' = 0
    /\ in_hunk' = FALSE
    /\ last_valid_position' = None
    /\ closest_line' = 0
    /\ mapResult' = None
    /\ matchIdx' = 0
    /\ closestIdx' = 0
    /\ UNCHANGED notMapVars

\* a call with any patch of the model
MapCall ==
    /\ mapPc = "idle"
    /\ \E p \in Patches, t \in TargetLines : MapEnter(p, t)

\* a call with a patch without marker lines
MapCallPlain ==
    /\ mapPc = "idle"
    /\ \E p \in PlainPatches, t \in TargetLines : MapEnter(p, t)

\* a call with a single deletion-free hunk
MapCallSingleHunk ==
    /\ mapPc = "idle"
    /\ \E p \in SingleHunkPatches, t \in SingleHunkTargets : MapEnter(p, t)

\* The exact-match test and closest-match tracking shared by the '+' and
\* the context branch, after current_new_line += 1.
TrackCloser(newLine) ==
    Abs(newLine - target_line) < Abs(closest_line - target_line)

CountedLine ==
    LET newLine == current_new_line + 1 IN
    /\ position' = position + 1
    /\ current_new_line' = newLine
    /\ IF newLine = target_line
          THEN /\ mapResult' = position + 1
               /\ matchIdx' = lineIdx
               /\ mapPc' = "done"
               /\ UNCHANGED <<closest_line, last_valid_position, closestIdx>>
          ELSE /\ IF TrackCloser(newLine)
                     THEN /\ closest_line' = newLine
                          /\ last_valid_position' = position + 1
                          /\ closestIdx' = lineIdx
                     ELSE UNCHANGED <<closest_line, last_valid_position,
                                      closestIdx>>
               /\ UNCHANGED <<mapResult, matchIdx, mapPc>>
    /\ lineIdx' = lineIdx + 1
    /\ UNCHANGED <<patch, target_line, in_hunk>>

\* MapHunkHeader with the header line itself counted as position 1
MapHunkHeader_CountsHeader ==
    /\ mapPc = "loop"
    /\ lineIdx <= Len(patch)
    /\ startswith(patch[lineIdx], "@@")
    /\ in_hunk' = TRUE
    /\ current_new_line' = IF patch[lineIdx].n # None
                              THEN patch[lineIdx].n - 1
                              ELSE current_new_line
    /\ position' = 1
    /\ lineIdx' = lineIdx + 1
    /\ UNCHANGED <<mapPc, patch, target_line, last_valid_position,
                   closest_line, mapResult, matchIdx, closestIdx>>
    /\ UNCHANGED notMapVars

\* line.startswith("@@")
MapHunkHeader ==
    /\ mapPc = "loop"
    /\ lineIdx <= Len(patch)
    /\ startswith(patch[lineIdx], "@@")
    /\ in_hunk' = TRUE
    /\ current_new_line' = IF patch[lineIdx].n # None
                              THEN patch[lineIdx].n - 1
                              ELSE current_new_line
    /\ position' = 0
    /\ lineIdx' = lineIdx + 1
    /\ UNCHANGED <<mapPc, patch, target_line, last_valid_position,
                   closest_line, mapResult, matchIdx, closestIdx>>
    /\ UNCHANGED notMapVars

\* a line before the first hunk header
MapOutsideHunk ==
    /\ mapPc = "loop"
    /\ lineIdx <= Len(patch)
    /\ ~startswith(patch[lineIdx], "@@")
    /\ ~in_hunk
    /\ lineIdx' = lineIdx + 1
    /\ UNCHANGED <<mapPc, patch, target_line, position, current_new_line,
                   in_hunk, last_valid_position, closest_line, mapResult,
                   matchIdx, closestIdx>>
    /\ UNCHANGED notMapVars

\* if line.startswith("+")
MapAddition ==
    /\ mapPc = "loop"
    /\ lineIdx <= Len(patch)
    /\ in_hunk
    /\ startswith(patch[lineIdx], "+")
    /\ CountedLine
    /\ UNCHANGED notMapVars

\* IsContextBranch without the exclusion of deletions
IsContextBranch_CountsDeletions(line) ==
    \/ startswith(line, " ")
    \/ ~IsEmptyLine(line)

\* elif line.startswith(" ") or (not line.startswith("-") and len(line) > 0)
IsContextBranch(line) ==
    \/ startswith(line, " ")
    \/ (~startswith(line, "-") /\ ~IsEmptyLine(line))

MapContext ==
    /\ mapPc = "loop"
    /\ lineIdx <= Len(patch)
    /\ in_hunk
    /\ ~startswith(patch[lineIdx], "@@")
    /\ ~startswith(patch[lineIdx], "+")
    /\ IsContextBranch(patch[lineIdx])
    /\ CountedLine
    /\ UNCHANGED notMapVars

\* a deletion or an empty line: only position advances
MapUncounted ==
    /\ mapPc = "loop"
    /\ lineIdx <= Len(patch)
    /\ in_hunk
    /\ ~startswith(patch[lineIdx], "@@")
    /\ ~startswith(patch[lineIdx], "+")
    /\ ~IsContextBranch(patch[lineIdx])
    /\ position' = position + 1
    /\ lineIdx' = lineIdx + 1
    /\ UNCHANGED <<mapPc, patch, target_line, current_new_line, in_hunk,
                   last_valid_position, closest_line, mapResult, matchIdx,
                   closestIdx>>
    /\ UNCHANGED notMapVars

\* after the loop: the closest match within the tolerance, else None
UseFallback ==
    Truthy(last_valid_position) /\ Abs(closest_line - target_line) <= Tolerance

MapFallback ==
    /\ mapPc = "loop"
    /\ lineIdx > Len(patch)
    /\ IF UseFallback
          THEN /\ mapResult' = last_valid_position
               /\ matchIdx' = closestIdx
          ELSE /\ mapResult' = None
               /\ matchIdx' = 0
    /\ mapPc' = "done"
    /\ UNCHANGED <<patch, target_line, lineIdx, position, current_new_line,
                   in_hunk, last_valid_position, closest_line, closestIdx>>
    /\ UNCHANGED notMapVars

NextMap ==
    \/ MapCall
    \/ MapHunkHeader
    \/ MapOutsideHunk
    \/ MapAddition
    \/ MapContext
    \/ MapUncounted
    \/ MapFallback

SpecMap == Init /\ [][NextMap]_vars

NextMapPlain ==
    \/ MapCallPlain
    \/ MapHunkHeader
    \/ MapOutsideHunk
    \/ MapAddition
    \/ MapContext
    \/ MapUncounted
    \/ MapFallback

SpecMapPlain == Init /\ [][NextMapPlain]_vars

NextMapSingleHunk ==
    \/ MapCallSingleHunk
    \/ MapHunkHeader
    \/ MapAddition
    \/ MapContext
    \/ MapFallback

SpecMapSingleHunk == Init /\ [][NextMapSingleHunk]_vars

\* ------------------------------------------------------------------------
\* routes/github.py evaluate_and_comment_pr, with the GitHubService and
\* ClaudeService methods it runs.  One action per stretch of code between
\* two suspension points of the coroutine; messages.create is a blocking
\* call and does not suspend it.
\* ------------------------------------------------------------------------
Runs == DOMAIN pc

\* GetFailed without the 401 and the generic check
GetFailed_Only404(status) == status = 404

\* GetFailed letting a 401 answer through
GetFailed_Not401(status) == status = 404 \/ (status # 401 /\ status # 200)

\* the status checks of get_pr_files and get_latest_commit_sha
GetFailed(status) == status = 404 \/ status = 401 \/ status # 200

\* NeedsFallback taking the fallback on every client error
NeedsFallback_AnyClientError(status) == status \in 400..499

\* if response.status_code == 422: the general-comment fallback
NeedsFallback(status) == status = 422

\* the status checks of the review request, after the 422 branch
ReviewFailed(status) == status = 404 \/ status = 401 \/ status \notin {200, 201}

\* the status check of post_general_pr_comment
CommentFailed(status) == status \notin {200, 201}

\* HostError reporting every failure as a plain 500
HostError_Always500(status, text) == Raised(500, Detail("GitHub API error", <<>>))

\* the HTTPException of a failed get_pr_files, get_latest_commit_sha or
\* review request: fixed details for 404 and 401, else the host's status
\* with response.text
HostError(status, text) ==
    IF status = 404 THEN Raised(404, Detail("PR not found", <<>>))
    ELSE IF status = 401 THEN Raised(401, Detail("Invalid GitHub token", <<>>))
    ELSE Raised(status, Detail("GitHub API error", text))

\* NoFilesToEvaluate without the check
NoFilesToEvaluate_Never(files) == FALSE

\* if not pr_files: raise HTTPException(400, "No files to evaluate in the PR")
NoFilesToEvaluate(files) == files = <<>>

\* HasComments with the publish step taken for every review
HasComments_Always(review) == TRUE

\* if pr_review.review_comments:
HasComments(review) == review.review_comments # <<>>

\* what the host sends back: the JSON document of a 2xx answer, the error
\* text of any other
ReplyBody(status, document, text) ==
    IF status \in 200..299 THEN document ELSE <<text>>

Finish(r, result) ==
    /\ pc' = [pc EXCEPT ![r] = "done"]
    /\ outcome' = [outcome EXCEPT ![r] = result]

\* The request arrives: evaluate_and_review_pr -> get_pr_files parses the
\* link and sends the list-files request.
RequestWith(r, env) ==
    /\ pc[r] = "idle"
    /\ \E link \in env.links :
        LET ref == parse_pr_link(link) IN
        /\ github_link' = [github_link EXCEPT ![r] = link]
        /\ IF ref = NoRef
              THEN /\ Finish(r, Raised(400, Detail("Invalid GitHub PR URL format", <<>>)))
                   /\ UNCHANGED calls
              ELSE /\ calls' = [calls EXCEPT ![r] =
                                  Append(@, Call("GET files", ref, <<>>))]
                   /\ pc' = [pc EXCEPT ![r] = "await_files"]
                   /\ UNCHANGED outcome
    /\ UNCHANGED <<pr_files, pr_review, replies, snapshots, notPipeVars>>

\* The list-files response arrives: status checks, FileDiff mapping, and
\* the insert of the GithubLink document is issued.
FilesResponseWith(r, env) ==
    /\ pc[r] = "await_files"
    /\ \E status \in env.statuses, files \in env.files, text \in env.texts :
        LET body == ReplyBody(status, files, text) IN
        /\ replies' = [replies EXCEPT ![r] =
                          Append(@, Reply("GET files", status, body))]
        /\ IF GetFailed(status)
             THEN /\ Finish(r, HostError(status, body))
                  /\ UNCHANGED <<pr_files, calls>>
             ELSE /\ pr_files' = [pr_files EXCEPT ![r] = FileDiffs(files)]
                  /\ calls' = [calls EXCEPT ![r] =
                      Append(@, Call("insert snapshot",
                                     parse_pr_link(github_link[r]), <<>>))]
                  /\ pc' = [pc EXCEPT ![r] = "await_insert"]
                  /\ UNCHANGED outcome
    /\ UNCHANGED <<github_link, pr_review, snapshots, notPipeVars>>

\* Snapshot with one id for every document
Snapshot_SharedId(r) ==
    LET ref == parse_pr_link(github_link[r]) IN
    [id |-> 1, github_link |-> github_link[r],
     owner |-> ref[1], repo |-> ref[2], pr_number |-> ref[3],
     pr_files |-> pr_files[r]]

\* insert replacing the document stored for the same link
insert_ReplacingSameLink(collection, document) ==
    SelectSeq(collection, LAMBDA d : d.github_link # document.github_link)
        \o <<document>>

\* Document.insert(): the collection with the new document added
insert(collection, document) == Append(collection, document)

\* the GithubLink document of a run
Snapshot(r) ==
    LET ref == parse_pr_link(github_link[r]) IN
    [id |-> Len(snapshots) + 1, github_link |-> github_link[r],
     owner |-> ref[1], repo |-> ref[2], pr_number |-> ref[3],
     pr_files |-> pr_files[r]]

\* The insert completes: evaluate_pr (empty check, prompt, model call,
\* parsing and validation), then the route parses the link again and, when
\* there are comments, post_pr_review_comments sends the get-PR request.
SnapshotInsertedWith(r, env) ==
    /\ pc[r] = "await_insert"
    /\ snapshots' = insert(snapshots, Snapshot(r))
    /\ IF NoFilesToEvaluate(pr_files[r])
          THEN /\ Finish(r, Raised(400, Detail("No files to evaluate in the PR", <<>>)))
               /\ UNCHANGED <<calls, pr_review>>
          ELSE \E ai \in env.ais :
                LET res == ParseResponse(ai)
                    ref == parse_pr_link(github_link[r])
                    aiCall == Call("AI", ref, _build_evaluation_prompt(pr_files[r]))
                IN
                IF ~res.ok
                   THEN /\ Finish(r, Raised(res.status, res.detail))
                        /\ calls' = [calls EXCEPT ![r] = Append(@, aiCall)]
                        /\ UNCHANGED pr_review
                   ELSE /\ pr_review' = [pr_review EXCEPT ![r] = res.review]
                        /\ IF HasComments(res.review)
                              THEN /\ calls' = [calls EXCEPT ![r] =
                                        @ \o <<aiCall, Call("GET pr", ref, <<>>)>>]
                                   /\ pc' = [pc EXCEPT ![r] = "await_head"]
                                   /\ UNCHANGED outcome
                              ELSE /\ calls' = [calls EXCEPT ![r] = Append(@, aiCall)]
                                   /\ Finish(r, Returned(res.review, FALSE, NoUrl))
    /\ UNCHANGED <<github_link, pr_files, replies, notPipeVars>>

\* The get-PR response arrives: status checks, then the review request
\* with every comment addressed by path, line and side.
HeadResponseWith(r, env) ==
    /\ pc[r] = "await_head"
    /\ \E status \in env.statuses, text \in env.texts :
        LET body == ReplyBody(status, <<"head sha">>, text) IN
        /\ replies' = [replies EXCEPT ![r] = Append(@, Reply("GET pr", status, body))]
        /\ IF GetFailed(status)
             THEN /\ Finish(r, HostError(status, body))
                  /\ UNCHANGED calls
             ELSE /\ calls' = [calls EXCEPT ![r] =
                      Append(@, Call("POST review", parse_pr_link(github_link[r]),
                                     GithubComments(pr_review[r].review_comments)))]
                  /\ pc' = [pc EXCEPT ![r] = "await_review"]
                  /\ UNCHANGED outcome
    /\ UNCHANGED <<github_link, pr_files, pr_review, snapshots, notPipeVars>>

\* The review response arrives: 422 sends the general comment; any other
\* failure raises; success returns the route's result.
ReviewResponseWith(r, env) ==
    /\ pc[r] = "await_review"
    /\ \E status \in env.statuses, text \in env.texts :
        LET body == ReplyBody(status, <<"review html_url">>, text) IN
        /\ replies' = [replies EXCEPT ![r] =
                          Append(@, Reply("POST review", status, body))]
        /\ IF NeedsFallback(status)
             THEN /\ calls' = [calls EXCEPT ![r] =
                      Append(@, Call("POST comment", parse_pr_link(github_link[r]),
                                     GeneralComment(pr_review[r].review_comments)))]
                  /\ pc' = [pc EXCEPT ![r] = "await_comment"]
                  /\ UNCHANGED outcome
             ELSE IF ReviewFailed(status)
             THEN /\ Finish(r, HostError(status, body))
                  /\ UNCHANGED calls
             ELSE /\ Finish(r, Returned(pr_review[r], TRUE, "review html_url"))
                  /\ UNCHANGED calls
    /\ UNCHANGED <<github_link, pr_files, pr_review, snapshots, notPipeVars>>

\* The general-comment response arrives.
CommentResponseWith(r, env) ==
    /\ pc[r] = "await_comment"
    /\ \E status \in env.statuses, text \in env.texts :
        LET body == ReplyBody(status, <<"comment html_url">>, text) IN
        /\ replies' = [replies EXCEPT ![r] =
                          Append(@, Reply("POST comment", status, body))]
        /\ IF CommentFailed(status)
             THEN Finish(r, Raised(status, Detail("GitHub API error", body)))
             ELSE Finish(r, Returned(pr_review[r], TRUE, "comment html_url"))
    /\ UNCHANGED <<github_link, pr_files, pr_review, calls, snapshots, notPipeVars>>

\* every link, host answer and model answer of the model
FullEnv ==
    [links |-> PipelineLinks, statuses |-> HostStatuses, files |-> HostFileLists,
     texts |-> HostErrorTexts, ais |-> AIResponses]

Request(r) == RequestWith(r, FullEnv)

FilesResponse(r) == FilesResponseWith(r, FullEnv)

SnapshotInserted(r) == SnapshotInsertedWith(r, FullEnv)

HeadResponse(r) == HeadResponseWith(r, FullEnv)

ReviewResponse(r) == ReviewResponseWith(r, FullEnv)

CommentResponse(r) == CommentResponseWith(r, FullEnv)

Next ==
    \/ \E r \in Runs : Request(r)
    \/ \E r \in Runs : FilesResponse(r)
    \/ \E r \in Runs : SnapshotInserted(r)
    \/ \E r \in Runs : HeadResponse(r)
    \/ \E r \in Runs : ReviewResponse(r)
    \/ \E r \in Runs : CommentResponse(r)

Spec == Init /\ [][Next]_vars

\* ------------------------------------------------------------------------
\* Several requests in flight: each await of a run lets the others move
\* ------------------------------------------------------------------------
NumRuns == 2

\* a few links, host answers and model answers for every run
RunsEnv ==
    [links |-> {LinkOf(<<"acme", "widgets", "pull", "42">>, 0),
                LinkOf(<<"acme", "widgets">>, 0)},
     statuses |-> {200, 404, 422},
     files |-> {<<>>,
                <<[filename |-> "src/a.py", status |-> "modified", patch |-> NoPatch],
                  [filename |-> "src/b.py", status |-> "modified",
                   patch |-> "@@ -10,4 +10,7 @@"]>>},
     texts |-> HostErrorTexts,
     ais |-> {ApiError,
              [kind |-> "text", text |-> <<"{", "fields", "}">>,
               data |-> [summary |-> "summary", scores |-> <<7, 8, 6>>,
                         review_comments |->
                             <<[path |-> "src/a.py", line |-> 12,
                                body |-> "validate count"]>>]]}]

InitRuns == InitMapper /\ InitPipeline(1..NumRuns) /\ InitFn /\ InitTask

NextRuns ==
    \/ \E r \in Runs : RequestWith(r, RunsEnv)
    \/ \E r \in Runs : FilesResponseWith(r, RunsEnv)
    \/ \E r \in Runs : SnapshotInsertedWith(r, RunsEnv)
    \/ \E r \in Runs : HeadResponseWith(r, RunsEnv)
    \/ \E r \in Runs : ReviewResponseWith(r, RunsEnv)
    \/ \E r \in Runs : CommentResponseWith(r, RunsEnv)

SpecRuns == InitRuns /\ [][NextRuns]_vars

\* ------------------------------------------------------------------------
\* GitHubService.parse_pr_link, called on its own
\* ------------------------------------------------------------------------
ParseCall ==
    /\ parsePc = "idle"
    /\ \E link \in AllLinks :
        /\ parseLink' = link
        /\ parseResult' = parse_pr_link(link)
    /\ parsePc' = "done"
    /\ UNCHANGED <<notFnVars, evalVars, scoreVars>>

NextParse == ParseCall

SpecParse == Init /\ [][NextParse]_vars

\* ------------------------------------------------------------------------
\* ClaudeService.evaluate_pr from the model call on, by itself
\* ------------------------------------------------------------------------

\* the data a decodable response may carry: scores in and out of range or
\* missing, comments well-formed or not
EvalData ==
    [summary : {"summary"},
     scores : ScoreTriples \cup {<<7, 8, -2>>},
     review_comments :
        UNION {[1..m -> ReviewComments \cup MalformedComments] : m \in 0..MaxComments}]

EvalResponses == {ApiError} \cup TextResponses(ResponseTexts, EvalData)

EvalCall ==
    /\ evalPc = "idle"
    /\ \E ai \in EvalResponses :
        /\ evalResponse' = ai
        /\ evalResult' = ParseResponse(ai)
    /\ evalPc' = "done"
    /\ UNCHANGED <<notFnVars, parseVars, scoreVars>>

NextEval == EvalCall

SpecEval == Init /\ [][NextEval]_vars

\* ------------------------------------------------------------------------
\* submit_task: the overall score of an evaluated submission
\* ------------------------------------------------------------------------
MaxScore == 10

\* Python's round(num / den, 0) for integers num >= 0, den > 0: the nearest
\* integer, a tie going to the even one
RoundHalfEven(num, den) ==
    LET q == num \div den
        rem == num % den
    IN IF 2 * rem < den THEN q
       ELSE IF 2 * rem > den THEN q + 1
       ELSE IF q % 2 = 0 THEN q ELSE q + 1

\* OverallScore with floor division of the sum
OverallScore_FloorDivision(c, e, g) == ((c + e + g) \div 3) * 100

\* round((c + e + g) / 3 * 10, 1), in tenths
OverallScore(c, e, g) == RoundHalfEven((c + e + g) * 100, 3)

ScoreCall ==
    /\ scorePc = "idle"
    /\ \E c \in 0..MaxScore, e \in 0..MaxScore, g \in 0..MaxScore :
        /\ scoreReview' = <<c, e, g>>
        /\ overall_score' = OverallScore(c, e, g)
    /\ scorePc' = "done"
    /\ UNCHANGED <<notFnVars, parseVars, evalVars>>

NextScore == ScoreCall

SpecScore == Init /\ [][NextScore]_vars

\* ------------------------------------------------------------------------
\* Reference notions of section 4.3: hunks, new-file line numbers and
\* positions, stated on the patch alone (independent of the walk above).
\* ------------------------------------------------------------------------
IsHeader(p, i) == p[i].c = "@@"

\* index of the most recent hunk header at or before line i (0: none)
RECURSIVE HeaderBefore(_, _)
HeaderBefore(p, i) ==
    IF i = 0 THEN 0
    ELSE IF IsHeader(p, i) THEN i
    ELSE HeaderBefore(p, i - 1)

InHunkAt(p, i) == ~IsHeader(p, i) /\ HeaderBefore(p, i) # 0

\* additions and context lines: the lines that consume a new-file line number
ConsumesNewLine(p, i) == InHunkAt(p, i) /\ p[i].c \in {"+", " "}

\* the new-file line counter after line i: seeded with new-start minus one
\* at a header, advanced by additions and context lines only
RECURSIVE NewLineAfter(_, _)
NewLineAfter(p, i) ==
    IF i = 0 THEN 0
    ELSE IF IsHeader(p, i)
         THEN p[i].n - 1
    ELSE IF ConsumesNewLine(p, i) THEN NewLineAfter(p, i - 1) + 1
    ELSE NewLineAfter(p, i - 1)

\* number of diff lines seen since the most recent hunk header
PositionOf(p, i) == i - HeaderBefore(p, i)

MappableLines(p) == {i \in 1..Len(p) : ConsumesNewLine(p, i)}

ExactLines(p, t) == {i \in MappableLines(p) : NewLineAfter(p, i) = t}

Distance(p, i, t) == Abs(NewLineAfter(p, i) - t)

MinOf(S) == CHOOSE x \in S : \A y \in S : x <= y

MinDistance(p, t) == MinOf({Distance(p, i, t) : i \in MappableLines(p)})

MapDone == mapPc = "done"

\* C1: when some addition or context line has new-file line number equal to
\* the target, the mapper returns the position (lines since the most recent
\* hunk header) of the earliest such line in patch order, never a fallback.
C1_ExactMatchEarliest ==
    (MapDone /\ ExactLines(patch, target_line) # {}) =>
        /\ matchIdx = MinOf(ExactLines(patch, target_line))
        /\ mapResult = PositionOf(patch, MinOf(ExactLines(patch, target_line)))

\* C2: with no exact match and a closest addition/context line at distance
\* d <= 5, the mapper returns the position of an addition/context line at
\* that minimal distance, not none.
C2_FallbackWithinTolerance ==
    (/\ MapDone
     /\ ExactLines(patch, target_line) = {}
     /\ MappableLines(patch) # {}
     /\ MinDistance(patch, target_line) <= Tolerance) =>
        /\ mapResult # None
        /\ matchIdx \in MappableLines(patch)
        /\ Distance(patch, matchIdx, target_line) = MinDistance(patch, target_line)
        /\ mapResult = PositionOf(patch, matchIdx)

\* C3: with no exact match and every addition/context line more than 5
\* lines away from the target, the mapper returns none.
C3_BeyondToleranceNone ==
    (/\ MapDone
     /\ ExactLines(patch, target_line) = {}
     /\ \A i \in MappableLines(patch) : Distance(patch, i, target_line) > Tolerance)
        => mapResult = None

\* C4: for one hunk header with new-start S followed by k additions or
\* context lines, every target T with S <= T < S+k maps to T-S+1; the
\* header @@ -10,4 +10,7 @@ followed by a context line, two additions and
\* a context line maps target 12 to position 3.
IsSingleHunk(p) ==
    /\ Len(p) >= 2
    /\ IsHeader(p, 1)
    /\ \A i \in 2..Len(p) : p[i].c \in {"+", " "}

ExamplePatch ==
    <<[c |-> "@@", n |-> 10], [c |-> " ", n |-> None], [c |-> "+", n |-> None],
      [c |-> "+", n |-> None], [c |-> " ", n |-> None]>>

C4_SingleHunkPosition ==
    /\ (/\ MapDone
        /\ IsSingleHunk(patch)
        /\ patch[1].n <= target_line
        /\ target_line < patch[1].n + (Len(patch) - 1))
            => mapResult = target_line - patch[1].n + 1
    /\ (MapDone /\ patch = ExamplePatch /\ target_line = 12) => mapResult = 3

C4_Witness ==
    MapDone /\ patch = ExamplePatch /\ target_line = 12 /\ mapResult = 3

\* C5: a deletion never advances the new-file line counter and is never the
\* line whose position is returned; a patch whose hunks hold only deletions
\* maps every target to none.
OnlyDeletions(p) == \A i \in 1..Len(p) : InHunkAt(p, i) => p[i].c = "-"

AtDeletion == mapPc = "loop" /\ lineIdx <= Len(patch) /\ patch[lineIdx].c = "-"

C5_DeletionsNeverMappable ==
    /\ [][AtDeletion => current_new_line' = current_new_line]_vars
    /\ [](MapDone /\ matchIdx # 0 => patch[matchIdx].c # "-")
    /\ [](MapDone /\ OnlyDeletions(patch) => mapResult = None)

C5_Witness ==
    /\ MapDone
    /\ OnlyDeletions(patch)
    /\ \E i \in 1..Len(patch) : InHunkAt(patch, i)
    /\ lineIdx > Len(patch)
    /\ mapResult = None

\* ------------------------------------------------------------------------
\* Properties of the pipeline
\* ------------------------------------------------------------------------
Ops(r) == [i \in 1..Len(calls[r]) |-> calls[r][i].op]

CallsOf(r, op) == {i \in 1..Len(calls[r]) : calls[r][i].op = op}

\* the status the host answered a call of the run with (0: no answer yet)
StatusOf(r, op) ==
    IF \E i \in 1..Len(replies[r]) : replies[r][i].op = op
       THEN replies[r][CHOOSE i \in 1..Len(replies[r]) : replies[r][i].op = op].status
       ELSE 0

Accepted(status) == status \in {200, 201}

NonSuccess(status) == status # 0 /\ status \notin 200..299

\* the run's evaluation step produced a PRReview
Evaluated(r) == pr_review[r] # NoReview

\* C6: a review request answered 422 is followed by exactly one general
\* comment request whose body lists every original comment's path, line and
\* body in order, and by no second review request; once the general comment
\* is accepted the pipeline reports comments_posted = true.
C6_FallbackOn422 ==
    \A r \in Runs :
        StatusOf(r, "POST review") = 422 =>
            /\ Cardinality(CallsOf(r, "POST comment")) = 1
            /\ Cardinality(CallsOf(r, "POST review")) = 1
            /\ LET body == calls[r][CHOOSE i \in CallsOf(r, "POST comment") : TRUE].payload
                   comments == pr_review[r].review_comments
               IN /\ Len(comments) > 0
                  /\ Len(body) = Len(comments)
                  /\ \A i \in 1..Len(comments) :
                        /\ body[i][1] = comments[i].path
                        /\ body[i][2] = comments[i].line
                        /\ body[i][3] = comments[i].body
            /\ Accepted(StatusOf(r, "POST comment")) =>
                  /\ outcome[r].kind = "ok"
                  /\ outcome[r].comments_posted

C6_Witness ==
    \E r \in Runs :
        /\ StatusOf(r, "POST review") = 422
        /\ StatusOf(r, "POST comment") = 201
        /\ Len(pr_review[r].review_comments) = 2
        /\ pr_review[r].review_comments[1] # pr_review[r].review_comments[2]
        /\ outcome[r].comments_posted

\* C7: once the evaluation step has produced a PRReview, a publish failure
\* (get-PR error, a non-422 rejection of the review, or a failed general
\* comment) does not discard it: the caller receives that review.
PublishFailed(r) ==
    \/ NonSuccess(StatusOf(r, "GET pr"))
    \/ (NonSuccess(StatusOf(r, "POST review")) /\ StatusOf(r, "POST review") # 422)
    \/ NonSuccess(StatusOf(r, "POST comment"))

C7_ReviewSurvivesPublishFailure ==
    \A r \in Runs :
        (pc[r] = "done" /\ Evaluated(r) /\ PublishFailed(r)) =>
            outcome[r].review = pr_review[r]

\* C8: a review request answered with a non-success status other than 422
\* fails publish with that status and sends no general comment; a failed
\* get-PR request fails publish before any review request is sent.
C8_HardFailures ==
    \A r \in Runs :
        /\ (NonSuccess(StatusOf(r, "POST review")) /\ StatusOf(r, "POST review") # 422) =>
              /\ pc[r] = "done"
              /\ outcome[r].kind = "error"
              /\ outcome[r].status = StatusOf(r, "POST review")
              /\ CallsOf(r, "POST comment") = {}
        /\ NonSuccess(StatusOf(r, "GET pr")) =>
              /\ pc[r] = "done"
              /\ outcome[r].kind = "error"
              /\ outcome[r].status = StatusOf(r, "GET pr")
              /\ CallsOf(r, "POST review") = {}
              /\ CallsOf(r, "POST comment") = {}

C8_Witness ==
    \E r \in Runs :
        /\ StatusOf(r, "POST review") = 404
        /\ outcome[r].kind = "error"
        /\ outcome[r].status = 404
        /\ Len(calls[r]) = 5

\* C9: the external calls of a run are a prefix of: list files, persist
\* snapshot, model call, get PR, create review, create general comment; no
\* call is made twice, and a call is made only after every earlier one has
\* completed (the general comment only after a 422 on the review).
PipelineOrder ==
    <<"GET files", "insert snapshot", "AI", "GET pr", "POST review", "POST comment">>

C9_CallOrder ==
    \A r \in Runs :
        /\ Len(calls[r]) <= Len(PipelineOrder)
        /\ Ops(r) = SubSeq(PipelineOrder, 1, Len(calls[r]))
        /\ Len(calls[r]) >= 2 => StatusOf(r, "GET files") = 200
        /\ Len(calls[r]) >= 3 =>
              /\ pc[r] \notin {"idle", "await_files", "await_insert"}
              /\ \E i \in 1..Len(snapshots) :
                    snapshots[i].github_link = github_link[r]
        /\ Len(calls[r]) >= 4 => Evaluated(r)
        /\ Len(calls[r]) >= 5 => StatusOf(r, "GET pr") = 200
        /\ Len(calls[r]) >= 6 => StatusOf(r, "POST review") = 422

C9_Witness ==
    \E r \in Runs : pc[r] = "done" /\ Ops(r) = PipelineOrder

\* C10: a link whose path is not /<owner>/<repo>/pull/<number> (number
\* numeric, trailing slashes allowed) is rejected with HTTP 400 and the run
\* makes no request, no model call and persists no snapshot.
WellFormedLink(link) ==
    \E o \in Words, rp \in Words, n \in NumericWords, k \in 0..(MaxTrailing + 1) :
        link = LinkPrefix \o <<"/", o, "/", rp, "/", "pull", "/", n>> \o Slashes(k)

C10_MalformedLinkRejected ==
    \A r \in Runs :
        (pc[r] # "idle" /\ ~WellFormedLink(github_link[r])) =>
            /\ outcome[r].kind = "error"
            /\ outcome[r].status = 400
            /\ calls[r] = <<>>
            /\ snapshots = <<>>
\* ------------------------------------------------------------------------
\* Properties of parse_pr_link
\* ------------------------------------------------------------------------

\* scheme://host/<owner>/<repo>/pull/<number>
PullLink(o, rp, n) == LinkPrefix \o <<"/", o, "/", rp, "/", "pull", "/", n>>

\* C11: a link scheme://host/<owner>/<repo>/pull/<number> parses to exactly
\* (owner, repo, number), and so does the same link with a trailing slash.
C11_ParseRoundTrip ==
    parsePc = "done" =>
        \A o \in Words, rp \in Words, n \in NumericWords :
            (parseLink = PullLink(o, rp, n) \/ parseLink = PullLink(o, rp, n) \o <<"/">>)
                => parseResult = << <<o>>, <<rp>>, <<n>> >>

C11_Witness ==
    /\ parsePc = "done"
    /\ parseLink = PullLink("acme", "widgets", "42") \o <<"/">>
    /\ parseResult = << <<"acme">>, <<"widgets">>, <<"42">> >>

\* the operations of a run's call log
OpsOf(r) == {calls[r][i].op : i \in 1..Len(calls[r])}

\* the run's link was rejected by parse_pr_link
ParseFailed(r) == pc[r] # "idle" /\ parse_pr_link(github_link[r]) = NoRef

\* C12: when parse_pr_link fails or the list-files request is answered
\* with a non-success status, the run persists no snapshot, never calls the
\* AI model and sends no get-PR, review or comment request.
C12_ErrorsAbortPipeline ==
    \A r \in Runs :
        (ParseFailed(r) \/ NonSuccess(StatusOf(r, "GET files"))) =>
            /\ OpsOf(r) \cap {"insert snapshot", "AI", "GET pr", "POST review",
                              "POST comment"} = {}
            /\ Len(snapshots) <= Cardinality(Runs \ {r})
            /\ pc[r] = "done"
            /\ outcome[r].kind = "error"

C12_Witness ==
    \E r \in Runs :
        /\ StatusOf(r, "GET files") = 401
        /\ OpsOf(r) = {"GET files"}
        /\ snapshots = <<>>
        /\ outcome[r].status = 401

\* the body of the host's answer to the run's request op (<<>>: none yet)
BodyOf(r, op) ==
    IF \E i \in 1..Len(replies[r]) : replies[r][i].op = op
       THEN replies[r][CHOOSE i \in 1..Len(replies[r]) : replies[r][i].op = op].body
       ELSE <<>>

\* the run failed with the host's own status and the body of its answer
UpstreamError(r, op) ==
    /\ outcome[r].kind = "error"
    /\ outcome[r].status = StatusOf(r, op)
    /\ outcome[r].detail = Detail("GitHub API error", BodyOf(r, op))

\* the run went past the list-files answer
FetchSucceeded(r) == "insert snapshot" \in OpsOf(r)

\* C13 as stated: 404 fails with 404, 401 with 401, every other non-2xx
\* status with the host's status and body, and every 2xx answer of the
\* list-files request is a success.
C13_EverySuccessStatusAccepted ==
    \A r \in Runs :
        LET status == StatusOf(r, "GET files") IN
        /\ status = 404 => outcome[r].kind = "error" /\ outcome[r].status = 404
        /\ status = 401 => outcome[r].kind = "error" /\ outcome[r].status = 401
        /\ (NonSuccess(status) /\ status \notin {404, 401}) => UpstreamError(r, "GET files")
        /\ status \in 200..299 => FetchSucceeded(r)

\* C13, amended: 404 fails with 404 ("PR not found"), 401 with 401
\* ("Invalid GitHub token"), every other status except 200 -- the other 2xx
\* statuses included -- fails with the host's status and body, and only 200
\* is a success.
C13_FetchStatusMapping ==
    \A r \in Runs :
        LET status == StatusOf(r, "GET files") IN
        /\ status = 404 =>
              /\ outcome[r].kind = "error" /\ outcome[r].status = 404
              /\ outcome[r].detail = Detail("PR not found", <<>>)
        /\ status = 401 =>
              /\ outcome[r].kind = "error" /\ outcome[r].status = 401
              /\ outcome[r].detail = Detail("Invalid GitHub token", <<>>)
        /\ (status # 0 /\ status \notin {404, 401, 200}) =>
              /\ UpstreamError(r, "GET files")
              /\ ~FetchSucceeded(r)
        /\ status = 200 => FetchSucceeded(r)

C13_Witness ==
    \E r \in Runs :
        /\ StatusOf(r, "GET files") = 500
        /\ outcome[r] = Raised(500, Detail("GitHub API error", <<"API rate limit exceeded">>))

\* the snapshot's file list has one FileDiff per entry of the host's list,
\* in the host's order, a missing patch stored as the empty string
MirrorsHostList(snapshot, entries) ==
    /\ Len(snapshot.pr_files) = Len(entries)
    /\ \A i \in 1..Len(entries) :
        /\ snapshot.pr_files[i].filename = entries[i].filename
        /\ snapshot.pr_files[i].status = entries[i].status
        /\ snapshot.pr_files[i].patch =
              IF entries[i].patch = NoPatch THEN "" ELSE entries[i].patch

\* the runs whose fetch completes in this step
Persisting == {r \in Runs : pc[r] = "await_insert" /\ pc'[r] # "await_insert"}

\* C14: a successful fetch adds exactly one snapshot, whose file list
\* mirrors the host's list (missing patch as ""), and leaves every stored
\* snapshot as it was; no other step touches the collection.
C14_OneSnapshotPerFetch ==
    [][/\ Persisting = {} => snapshots' = snapshots
       /\ \A r \in Persisting :
            /\ Len(snapshots') = Len(snapshots) + 1
            /\ SubSeq(snapshots', 1, Len(snapshots)) = snapshots
            /\ snapshots'[Len(snapshots')].github_link = github_link[r]
            /\ snapshots'[Len(snapshots')].id
                  \notin {snapshots[i].id : i \in 1..Len(snapshots)}
            /\ MirrorsHostList(snapshots'[Len(snapshots')], BodyOf(r, "GET files"))]_vars

C14_Witness ==
    /\ Len(snapshots) = 2
    /\ \A r \in Runs : FetchSucceeded(r) /\ pc[r] # "await_insert"
    /\ snapshots[1].pr_files = <<>>
    /\ Len(snapshots[2].pr_files) = 2
    /\ snapshots[2].pr_files[1] =
          [filename |-> "src/a.py", status |-> "modified", patch |-> ""]
    /\ snapshots[2].pr_files[2].filename = "src/b.py"

\* the payloads of the run's calls to the AI model
PromptsOf(r) == {calls[r][i].payload : i \in {k \in 1..Len(calls[r]) : calls[r][k].op = "AI"}}

\* the prompt text of a file list: one block per file, in order, with the
\* file's name, status and patch, "No patch available" for an empty patch
PromptShows(prompt, files) ==
    /\ Len(prompt.files_text) = Len(files)
    /\ \A i \in 1..Len(files) :
        /\ prompt.files_text[i].File = files[i].filename
        /\ prompt.files_text[i].Status = files[i].status
        /\ files[i].patch # "" => prompt.files_text[i].Changes = files[i].patch
        /\ files[i].patch = "" => prompt.files_text[i].Changes = "No patch available"

\* C15: with an empty file list the evaluation fails with 400 "No files to
\* evaluate in the PR" and the AI model is never called; with a non-empty
\* list the prompt is built and sent, and it is a function of the file list
\* alone.
C15_EmptyListIsRejected ==
    \A r \in Runs :
        FetchSucceeded(r) /\ pc[r] # "await_insert" =>
            /\ pr_files[r] = <<>> =>
                  /\ outcome[r] = Raised(400, Detail("No files to evaluate in the PR", <<>>))
                  /\ "AI" \notin OpsOf(r)
            /\ pr_files[r] # <<>> =>
                  /\ "AI" \in OpsOf(r)
                  /\ \A p \in PromptsOf(r) : PromptShows(p, pr_files[r])

C15_Witness ==
    \E r \in Runs :
        /\ pc[r] = "done"
        /\ FetchSucceeded(r)
        /\ pr_files[r] = <<>>
        /\ outcome[r].status = 400
        /\ OpsOf(r) = {"GET files", "insert snapshot"}

\* the evaluation failed with the unparsable-output error carrying the text
UnparsableWithText(result, text) ==
    /\ ~result.ok
    /\ result.detail = Detail("Failed to parse Claude response as JSON", text)

\* C16: a text that parses directly is used as parsed; otherwise the span
\* from the first "{" to the last "}" is parsed; when neither yields data
\* -- no span, or a span that does not parse -- the evaluation fails with
\* the unparsable-output error carrying the raw text.
C16_UnparsableCarriesRawText ==
    (evalPc = "done" /\ evalResponse.kind = "text") =>
        LET text == evalResponse.text IN
        /\ Decodes(text) /\ ValidReview(evalResponse.data) =>
              evalResult.ok /\ evalResult.review = evalResponse.data
        /\ ~Decodes(text) => UnparsableWithText(evalResult, text)

\* a score as the PRReview type requires it
ScoreInRange(v) == v \in 0..10

\* a comment with its path, an integer line and its body
CommentWellFormed(c) == c.path # Absent /\ c.line \in Nat /\ c.body # Absent

DataWellFormed(data) ==
    /\ \A i \in 1..3 : ScoreInRange(data.scores[i])
    /\ \A i \in 1..Len(data.review_comments) : CommentWellFormed(data.review_comments[i])

\* C17: every PRReview the evaluation returns has its three scores in
\* 0..10 and well-formed comments, and is the decoded data unchanged; decoded
\* data with a missing or out-of-range score or a malformed comment yields
\* an error and no review at all.
C17_OnlyValidReviewsReturned ==
    evalPc = "done" =>
        /\ evalResult.ok =>
              /\ DataWellFormed(evalResult.review)
              /\ evalResult.review = evalResponse.data
        /\ (evalResponse.kind = "text" /\ Decodes(evalResponse.text)
                /\ ~DataWellFormed(evalResponse.data)) =>
              /\ ~evalResult.ok
              /\ evalResult.status = 500
              /\ evalResult.review = NoReview

C17_Witness ==
    /\ evalPc = "done"
    /\ evalResponse.text = <<"prose", "{", "fields", "}">>
    /\ evalResponse.data.scores = <<7, 8, 6>>
    /\ Len(evalResponse.data.review_comments) = 2
    /\ evalResponse.data.review_comments[2].line = None
    /\ ~evalResult.ok

PublishOps == {"GET pr", "POST review", "POST comment"}

\* C18: a review without comments is not published: the run sends no
\* get-PR, review or comment request and returns the review with
\* comments_posted false, no review url and total_comments 0.
C18_NoCommentsNoRequests ==
    \A r \in Runs :
        (Evaluated(r) /\ pr_review[r].review_comments = <<>>) =>
            /\ OpsOf(r) \cap PublishOps = {}
            /\ pc[r] = "done"
            /\ outcome[r].kind = "ok"
            /\ outcome[r].review = pr_review[r]
            /\ outcome[r].comments_posted = FALSE
            /\ outcome[r].review_url = NoUrl
            /\ outcome[r].total_comments = 0

C18_Witness ==
    \E r \in Runs :
        /\ pr_review[r].scores = <<7, 8, 6>>
        /\ pr_review[r].review_comments = <<>>
        /\ OpsOf(r) = {"GET files", "insert snapshot", "AI"}
        /\ outcome[r].kind = "ok"
        /\ ~outcome[r].comments_posted

\* the comment is addressed as the review addressed it: path, line, body,
\* side RIGHT and nothing else
AddressedAs(sent, comment) ==
    /\ DOMAIN sent = {"path", "line", "side", "body"}
    /\ sent.path = comment.path
    /\ sent.line = comment.line
    /\ sent.side = "RIGHT"
    /\ sent.body = comment.body

ReviewRequestsOf(r) == {i \in 1..Len(calls[r]) : calls[r][i].op = "POST review"}

\* the files of the run's snapshot
SnapshotPaths(r) == {pr_files[r][i].filename : i \in 1..Len(pr_files[r])}

\* C19: once the head commit is known, a run with n comments sends exactly
\* one review request, holding the n comments in order, each by its path,
\* line, side RIGHT and body and without a position, whether or not its
\* file is in the snapshot.
C19_SingleReviewBatch ==
    \A r \in Runs :
        /\ Cardinality(ReviewRequestsOf(r)) <= 1
        /\ StatusOf(r, "GET pr") = 200 => ReviewRequestsOf(r) # {}
        /\ \A k \in ReviewRequestsOf(r) :
            LET sent == calls[r][k].payload
                comments == pr_review[r].review_comments
            IN /\ comments # <<>>
               /\ Len(sent) = Len(comments)
               /\ \A i \in 1..Len(comments) : AddressedAs(sent[i], comments[i])

C19_Witness ==
    \E r \in Runs :
        /\ SnapshotPaths(r) = {"src/a.py"}
        /\ pr_files[r][1].patch = ""
        /\ Len(pr_review[r].review_comments) = 2
        /\ pr_review[r].review_comments[1].path = "src/b.py"
        /\ pr_review[r].review_comments[2].path = "src/a.py"
        /\ \E k \in ReviewRequestsOf(r) :
            /\ Len(calls[r][k].payload) = 2
            /\ calls[r][k].payload[1].path = "src/b.py"
        /\ outcome[r].kind = "ok"
        /\ outcome[r].comments_posted

\* tenths is the one-decimal number nearest to mean(c, e, g) * 10, that
\* is, to 100 * (c + e + g) / 3 tenths
NearestTenth(tenths, c, e, g) ==
    LET diff == 3 * tenths - 100 * (c + e + g) IN
    2 * Abs(diff) <= 3

\* C20: for sub-scores c, e, g in 0..10 the overall score is
\* round(((c + e + g) / 3) * 10, 1), lies in [0, 100], and is 70.0 for
\* (7, 8, 6).
C20_OverallScore ==
    scorePc = "done" =>
        /\ NearestTenth(overall_score, scoreReview[1], scoreReview[2], scoreReview[3])
        /\ overall_score \in 0..1000
        /\ scoreReview = <<7, 8, 6>> => overall_score = 700

C20_Witness ==
    /\ scorePc = "done"
    /\ scoreReview = <<7, 8, 6>>
    /\ overall_score = 700

\* the run's fetch succeeded and its insert completed
Persisted(r) == FetchSucceeded(r) /\ pc[r] # "await_insert"

\* the stored snapshots that hold the run's link and file list
SnapshotsOf(r) ==
    {i \in 1..Len(snapshots) :
        /\ snapshots[i].github_link = github_link[r]
        /\ snapshots[i].pr_files = pr_files[r]}

\* every persisted run has a snapshot of its own: as many snapshots as
\* persisted runs, under pairwise distinct ids, one with the run's own link
\* and files; and what the run sends to the AI model is its own file list
OwnSnapshots ==
    /\ Len(snapshots) = Cardinality({r \in Runs : Persisted(r)})
    /\ \A i \in 1..Len(snapshots), j \in 1..Len(snapshots) :
          i # j => snapshots[i].id # snapshots[j].id
    /\ \A r \in Runs :
          Persisted(r) =>
              /\ SnapshotsOf(r) # {}
              /\ MirrorsHostList([pr_files |-> pr_files[r]], BodyOf(r, "GET files"))
              /\ \A p \in PromptsOf(r) : PromptShows(p, pr_files[r])

\* C21 as stated: in every interleaving each run whose fetch succeeded has
\* its own distinct snapshot and has made exactly one AI call of its own.
C21_EveryFetchCallsModel ==
    /\ OwnSnapshots
    /\ \A r \in Runs : Persisted(r) => Cardinality(CallsOf(r, "AI")) = 1

\* C21, amended: in every interleaving each run whose fetch succeeded has
\* its own distinct snapshot, and has made exactly one AI call of its own
\* when its file list is not empty and none when it is empty.
C21_RunsAreIndependent ==
    /\ OwnSnapshots
    /\ \A r \in Runs :
          Persisted(r) =>
              Cardinality(CallsOf(r, "AI")) = IF pr_files[r] = <<>> THEN 0 ELSE 1

C21_Witness ==
    /\ \A r \in Runs :
          /\ Persisted(r)
          /\ github_link[r] = LinkOf(<<"acme", "widgets", "pull", "42">>, 0)
          /\ Len(pr_files[r]) = 2
          /\ Cardinality(CallsOf(r, "AI")) = 1
    /\ Len(snapshots) = Cardinality(Runs)
    /\ snapshots[1].pr_files = snapshots[2].pr_files
    /\ snapshots[1].id # snapshots[2].id

\* the run ended with an error after its snapshot was stored
FailedAfterFetch(r) == Persisted(r) /\ outcome[r].kind = "error"

\* C22: no step modifies or removes a stored snapshot, and a run that
\* failed after its fetch (empty diff, AI call, validation, publishing)
\* still has its snapshot stored.
C22_SnapshotsAreImmutable ==
    /\ [][\A i \in 1..Len(snapshots) :
            Len(snapshots') >= i /\ snapshots'[i] = snapshots[i]]_vars
    /\ [](\A r \in Runs : FailedAfterFetch(r) => SnapshotsOf(r) # {})

C22_Witness ==
    /\ \E r \in Runs :
          /\ FailedAfterFetch(r)
          /\ StatusOf(r, "POST review") = 404
          /\ SnapshotsOf(r) # {}
    /\ \E r \in Runs :
          /\ FailedAfterFetch(r)
          /\ outcome[r].detail.msg = "Claude API error"
          /\ SnapshotsOf(r) # {}
    /\ Len(snapshots) = 2

\* index of the first hunk header of the patch (0: none)
FirstHeader(p) ==
    IF \E i \in 1..Len(p) : IsHeader(p, i)
       THEN MinOf({i \in 1..Len(p) : IsHeader(p, i)})
       ELSE 0

\* C23: the position returned for a matched line is the 1-based ordinal of
\* that line counted from the first hunk header of the patch, also when the
\* patch has two or more hunks.
C23_PositionFromFirstHeader ==
    (MapDone /\ matchIdx # 0) => mapResult = matchIdx - FirstHeader(patch)

\* the mapper has walked the first lineIdx - 1 lines of the patch
Walked == lineIdx - 1

\* C24: during the walk the new-file line counter is the current hunk's
\* new-start minus one plus the number of '+' and ' ' lines seen in that
\* hunk; deletions, empty lines and "\ No newline at end of file" markers
\* leave it unchanged, and before the first hunk header both counters stay
\* at zero.
C24_LineCounter ==
    mapPc # "idle" =>
        /\ current_new_line = NewLineAfter(patch, Walked)
        /\ HeaderBefore(patch, Walked) = 0 => (position = 0 /\ current_new_line = 0)

\* the run invoked the position mapper for the comment, after its get-PR
\* request and before its k-th call
MappedBefore(r, k, comment) ==
    \E g \in CallsOf(r, "GET pr"), j \in CallsOf(r, "map position") :
        /\ g < j /\ j < k
        /\ calls[r][j].payload = <<comment.path, comment.line>>

\* C25: when a review is submitted, the position mapper has been invoked,
\* between the get-PR request and the review request, for every comment
\* whose file is in the snapshot.
C25_MapperInvokedPerComment ==
    \A r \in Runs :
        \A k \in ReviewRequestsOf(r) :
            \A i \in 1..Len(pr_review[r].review_comments) :
                pr_review[r].review_comments[i].path \in SnapshotPaths(r) =>
                    MappedBefore(r, k, pr_review[r].review_comments[i])

\* ------------------------------------------------------------------------
\* The tasks collection: create_task, assign_task_to_employee and
\* submit_task_github_url.  A submit request suspends while the pipeline
\* runs, so other requests are handled between its find_one and its
\* update_one; the pipeline itself never reads or writes the task.
\* ------------------------------------------------------------------------
Submits == DOMAIN subPc

\* the employees that send requests and that the admin assigns tasks to
Employees == {"EMP001", "EMP002"}

\* TaskSubmission.validate_github_pr_url lets through only links of the form
\* https://github.com/owner/repo/pull/number, which parse_pr_link accepts
SubmittedLinks ==
    {LinkOf(<<"acme", "widgets", "pull", "42">>, 0)}

\* the list-files request got no response: httpx raises a transport error
NoResponse == 0

\* the host's and the model's answers to a submit request's pipeline
TaskEnv ==
    [statuses |-> {200, 404, NoResponse},
     files |-> {<<>>,
                <<[filename |-> "src/a.py", status |-> "modified",
                   patch |-> "@@ -10,4 +10,7 @@"]>>},
     texts |-> HostErrorTexts,
     ais |-> {ApiError,
              [kind |-> "text", text |-> <<"{", "fields", "}">>,
               data |-> [summary |-> "summary", scores |-> <<7, 8, 6>>,
                         review_comments |->
                             <<[path |-> "src/a.py", line |-> 12,
                                body |-> "validate count"]>>]],
              [kind |-> "text", text |-> <<"{", "fields", "}">>,
               data |-> [summary |-> "summary", scores |-> <<10, 9, 9>>,
                         review_comments |-> <<>>]]}]

\* the task document create_task inserts
NewTask ==
    [status |-> "assigned", assigned_to |-> Unassigned, github_link |-> NoLink,
     submission_date |-> NoDate, score |-> None, creativity_score |-> None,
     efficiency_score |-> None, edge_case_handling_score |-> None,
     feedback |-> Absent, review_comments |-> <<>>]

\* the $set of assign_task_to_employee
AssignedTask(t, employee_id) ==
    [t EXCEPT !.assigned_to = employee_id, !.status = "assigned"]

\* find_one({"task_id": task_id, "assigned_to": current_employee["user_id"]})
find_one(t, employee_id) ==
    IF t # NoTask /\ t.assigned_to = employee_id THEN t ELSE NoTask

\* AlreadySubmitted refusing evaluated tasks only
AlreadySubmitted_OnlyEvaluated(t) == t.status = "evaluated"

\* Step 2: if task["status"] in [SUBMITTED, EVALUATED, COMPLETED]
AlreadySubmitted(t) == t.status \in {"submitted", "evaluated", "completed"}

\* what evaluate_and_review_pr did
PipelineResult(raised, status_code, detail, review, ops) ==
    [raised |-> raised, status |-> status_code, detail |-> detail,
     review |-> review, ops |-> ops]

\* GitHubService.evaluate_and_review_pr from the moment the list-files
\* request is answered: get_pr_files, then ClaudeService.evaluate_pr.  It
\* returns the PRReview (raised "none"), or raises an HTTPException ("http")
\* or another exception ("other"); ops are the calls made after the request.
evaluate_and_review_pr(link, status_code, files, text, ai) ==
    IF status_code = NoResponse
       THEN PipelineResult("other", 0, Detail("transport error", <<>>), NoReview, <<>>)
    ELSE IF GetFailed(status_code)
       THEN LET exc == HostError(status_code, text) IN
            PipelineResult("http", exc.status, exc.detail, NoReview, <<>>)
    ELSE IF NoFilesToEvaluate(FileDiffs(files))
       THEN PipelineResult("http", 400, Detail("No files to evaluate in the PR", <<>>),
                           NoReview, <<"insert snapshot">>)
    ELSE LET res == ParseResponse(ai) IN
         IF res.ok
            THEN PipelineResult("none", 200, res.detail, res.review,
                                <<"insert snapshot", "AI">>)
            ELSE PipelineResult("http", res.status, res.detail, NoReview,
                                <<"insert snapshot", "AI">>)

\* the $set of Step 5: the link, the submission timestamp, the three scores
\* of the review with the overall score derived from them, and its summary
\* and comments
EvaluatedTask(t, link, timestamp, review) ==
    [t EXCEPT !.github_link = link,
              !.submission_date = timestamp,
              !.status = "evaluated",
              !.score = OverallScore(review.scores[1], review.scores[2],
                                     review.scores[3]),
              !.creativity_score = review.scores[1],
              !.efficiency_score = review.scores[2],
              !.edge_case_handling_score = review.scores[3],
              !.feedback = review.summary,
              !.review_comments = review.review_comments]

\* the $set of the except Exception branch
SubmittedTask(t, link, timestamp) ==
    [t EXCEPT !.github_link = link,
              !.submission_date = timestamp,
              !.status = "submitted"]

\* datetime.utcnow() of Step 3: requests in flight together read different
\* times, so the request's slot stands for its timestamp
submission_timestamp(s) == s

\* create_task: the admin creates the task
CreateTask ==
    /\ task = NoTask
    /\ task' = NewTask
    /\ UNCHANGED <<subPc, subEmployee, subLink, subOps, subResult, notTaskVars>>

\* assign_task_to_employee with an active employee of the task's project
AssignTask(employee_id) ==
    /\ task # NoTask
    /\ task' = AssignedTask(task, employee_id)
    /\ UNCHANGED <<subPc, subEmployee, subLink, subOps, subResult, notTaskVars>>

\* submit_task_github_url up to its first suspension inside the pipeline:
\* Steps 1 to 3 and the list-files request (parse_pr_link does not raise on
\* a validated link)
SubmitRequest(s, employee_id, link) ==
    /\ subPc[s] = "idle"
    /\ LET found == find_one(task, employee_id)
           Rejected(status_code, detail) ==
               /\ UNCHANGED <<subPc, subEmployee, subLink>>
               /\ subOps' = [subOps EXCEPT ![s] = <<>>]
               /\ subResult' = [subResult EXCEPT ![s] =
                      SubmitResponse("error", status_code, detail, "")]
       IN
        IF found = NoTask
           THEN Rejected(404, Detail("Task not found or not assigned to you", <<>>))
        ELSE IF AlreadySubmitted(found)
           THEN Rejected(400, Detail("Task already submitted", <<found.status>>))
        ELSE /\ subPc' = [subPc EXCEPT ![s] = "evaluating"]
             /\ subEmployee' = [subEmployee EXCEPT ![s] = employee_id]
             /\ subLink' = [subLink EXCEPT ![s] = link]
             /\ subOps' = [subOps EXCEPT ![s] = <<"GET files">>]
             /\ subResult' = [subResult EXCEPT ![s] = SubmitPending]
    /\ UNCHANGED <<task, notTaskVars>>

SubmitStart(s) ==
    \E employee_id \in Employees, link \in SubmittedLinks :
        SubmitRequest(s, employee_id, link)

\* The rest of submit_task_github_url: the pipeline ends and the handler
\* writes the task (Step 5 or the except Exception branch) or re-raises.
SubmitFinish(s) ==
    /\ subPc[s] = "evaluating"
    /\ \E status_code \in TaskEnv.statuses, files \in TaskEnv.files,
          text \in TaskEnv.texts, ai \in TaskEnv.ais :
        LET res == evaluate_and_review_pr(subLink[s], status_code, files, text, ai) IN
        /\ subOps' = [subOps EXCEPT ![s] = @ \o res.ops]
        /\ IF res.raised = "none"
             THEN /\ task' = EvaluatedTask(task, subLink[s], submission_timestamp(s),
                                           res.review)
                  /\ subResult' = [subResult EXCEPT ![s] =
                         SubmitResponse("ok", 200, res.detail,
                             "Task submitted and evaluated successfully!")]
           ELSE IF res.raised = "http"
             THEN /\ task' = task
                  /\ subResult' = [subResult EXCEPT ![s] =
                         SubmitResponse("error", res.status, res.detail, "")]
           ELSE /\ task' = SubmittedTask(task, subLink[s], submission_timestamp(s))
                /\ subResult' = [subResult EXCEPT ![s] =
                       SubmitResponse("ok", 200, res.detail,
                           "Task submitted. Evaluation pending.")]
    /\ subPc' = [subPc EXCEPT ![s] = "idle"]
    /\ subEmployee' = [subEmployee EXCEPT ![s] = Unassigned]
    /\ subLink' = [subLink EXCEPT ![s] = NoLink]
    /\ UNCHANGED notTaskVars

NextTask ==
    \/ CreateTask
    \/ \E employee_id \in Employees : AssignTask(employee_id)
    \/ \E s \in Submits : SubmitStart(s)
    \/ \E s \in Submits : SubmitFinish(s)

SpecTask == Init /\ [][NextTask]_vars

\* Requests are scheduled fairly and the external services eventually
\* answer successfully: a submit request that can be handled is handled, a
\* pending pipeline ends, and a pipeline that keeps being run eventually
\* returns a review.  Nothing obliges the admin to send requests.
FairTask ==
    \A s \in 1..NumSubmits :
        /\ WF_vars(SubmitStart(s))
        /\ WF_vars(SubmitFinish(s))
        /\ SF_vars(SubmitFinish(s) /\ subResult'[s].kind = "ok"
                                   /\ task'.status = "evaluated")

SpecTaskFair == SpecTask /\ FairTask

\* the request on connection s is answered with HTTPException(status_code)
\* before the pipeline is entered, and nothing is written
RejectedWith(s, status_code) ==
    /\ subResult'[s].kind = "error"
    /\ subResult'[s].status = status_code
    /\ subPc'[s] = "idle"
    /\ subOps'[s] = <<>>
    /\ task' = task
    /\ snapshots' = snapshots

\* C26: a submit request for a task that is assigned to the requester and
\* whose status is submitted, evaluated or completed is answered 400, and
\* one for a task that is not assigned to the requester is answered 404;
\* in both cases the pipeline makes no call and the task stays as it was.
C26_ResubmissionRejected ==
    [][\A s \in Submits, employee_id \in Employees, link \in SubmittedLinks :
          SubmitRequest(s, employee_id, link) =>
              /\ (task # NoTask /\ task.assigned_to = employee_id
                      /\ task.status \in {"submitted", "evaluated", "completed"})
                    => RejectedWith(s, 400)
              /\ (task = NoTask \/ task.assigned_to # employee_id)
                    => RejectedWith(s, 404)]_vars

C26_Witness ==
    \E s, t \in Submits :
        /\ task.status = "evaluated"
        /\ subResult[s] = SubmitResponse("error", 400,
               Detail("Task already submitted", <<"evaluated">>), "")
        /\ subOps[s] = <<>>
        /\ subResult[t] = SubmitResponse("error", 404,
               Detail("Task not found or not assigned to you", <<>>), "")
        /\ subOps[t] = <<>>

Evaluating == {s \in Submits : subPc[s] = "evaluating"}

\* the request on connection s ends in this step
Finishes(s) == subPc[s] = "evaluating" /\ subPc'[s] = "idle"

\* C27: at most one submit request at a time runs the pipeline for the
\* task, and once the task is evaluated no submit request writes it again.
C27_EvaluatedAtMostOnce ==
    /\ [](Cardinality(Evaluating) <= 1)
    /\ [][\A s \in Submits :
             (Finishes(s) /\ task.status = "evaluated") => task' = task]_vars

NoScores(t) ==
    /\ t.score = None
    /\ t.creativity_score = None
    /\ t.efficiency_score = None
    /\ t.edge_case_handling_score = None

EvaluationPending(response) ==
    response.kind = "ok" /\ response.message = "Task submitted. Evaluation pending."

\* C28: when a submit request ends with an HTTP error the task is left as
\* it was; when it ends because the pipeline raised another exception the
\* task is in status submitted with the request's link and no scores; and a
\* request moves the task to submitted in that case only.
C28_FailedEvaluationLeavesTask ==
    [][\A s \in Submits :
          Finishes(s) =>
              /\ subResult'[s].kind = "error" => task' = task
              /\ EvaluationPending(subResult'[s]) =>
                    /\ task'.status = "submitted"
                    /\ task'.github_link = subLink[s]
                    /\ NoScores(task')
              /\ (task'.status = "submitted" /\ task.status # "submitted") =>
                    EvaluationPending(subResult'[s])]_vars

\* C29: the score and the three sub-scores of the task are null unless its
\* status is evaluated or completed, and the score of an evaluated task is
\* the one derived from its three sub-scores.
C29_ScoresOnlyWhenEvaluated ==
    task # NoTask =>
        /\ ~NoScores(task) => task.status \in {"evaluated", "completed"}
        /\ task.status = "evaluated" =>
              task.score = OverallScore(task.creativity_score, task.efficiency_score,
                                        task.edge_case_handling_score)

\* C30: a task in status submitted is eventually evaluated.
C30_SubmittedEventuallyEvaluated ==
    (task.status = "submitted") ~> (task.status = "evaluated")

====
